---- MODULE Spec2Model ----
(***************************************************************************)
(* Verification model of flink-notebooks' VS Code extension:               *)
(*   - ClusterManager   (services/clusterManager.ts): lifecycle of the     *)
(*     MiniCluster child process: start, stop, getStatus, crash broadcast. *)
(*   - SessionManager   (providers/catalogTreeProvider.ts)                 *)
(*   - FlinkNotebookController (providers/catalogTreeProvider.ts): the     *)
(*     status loop, first-fetch loop, batch and streaming result loops.    *)
(*                                                                         *)
(* The extension runs on the Node.js event loop.  One action of the model  *)
(* is one macrotask: an external call, a timer, an HTTP response or a      *)
(* child-process event, together with all the synchronous code and promise *)
(* continuations it runs before control returns to the event loop.         *)
(***************************************************************************)
EXTENDS Integers, Sequences, FiniteSets, TLC

(***************************************************************************)
(* Bounds of the model.                                                    *)
(***************************************************************************)
\* number of start() and stop() calls made on the ClusterManager; the i-th
\* start() spawns child process i
MaxCalls == 2
\* iterations of the readiness loop that fit in the 30 s probe window
MaxProbes == 2
\* number of onCrash() registrations
MaxHandlers == 1
\* number of overlapping callers of getOrCreateSession()
MaxCallers == 2
\* number of sessions the gateway creates
MaxSessions == 2
\* largest token the gateway puts into a nextResultUri
MaxToken == 2
\* number of rows the gateway serves for the statement (the batch loop
\* refreshes the output whenever the buffer holds a multiple of 10 rows)
MaxRows == 10
\* the configured maxStreamingRows
MaxStreamingRows == 2
\* notebook cells that may stream at the same time
MaxCells == 2
\* Flink jobs the streaming statements belong to
MaxJobs == 2
\* streaming statements (each in a cell of its own) of one notebook
MaxRuns == 2
\* catalogs of the gateway, and databases of each catalog
MaxCatalogs == 2
MaxDatabases == 2

(***************************************************************************)
(* Constants of the program.                                               *)
(***************************************************************************)
\* fetchResults(): polls of the operation status
maxAttempts == 60
\* fetchResults(): re-fetches of the first page
maxFetchAttempts == 60

Starts == 1..MaxCalls
Stops == 1..MaxCalls

VARIABLES
  \* ---- ClusterManager fields ----
  status,        \* this.status : ClusterStatus
  process,       \* this.process : 0 is null, i is the ChildProcess of start i
  pid,           \* this.pid : 0 is null
  nHandlers,     \* this.crashHandlers.length
  \* ---- process host ----
  procs,         \* per child process: OS state and the ChildProcess fields
  \* ---- calls in progress ----
  startT,        \* per start() call: where its async body is suspended
  stopT,         \* per external stop() call: where its async body is suspended
  \* ---- observations ----
  crashLog,      \* every invocation of a crash handler, in order
  exitLog,       \* per child process: what the 'exit' observer saw
  path           \* the values this.status took during the last macrotask

supVars == <<status, process, pid, nHandlers, procs, startT, stopT,
             crashLog, exitLog, path>>

VARIABLES
  \* ---- SessionManager ----
  currentSessionId,  \* this.currentSessionId : 0 is null
  \* ---- SQL Gateway: sessions ----
  sessions,          \* the session handles that are live on the gateway
  created,           \* number of sessions the gateway has created so far
  \* ---- calls in progress ----
  sessT,             \* per caller of getOrCreateSession(): where it is suspended
  closeT             \* the closeSession() call: where it is suspended

sessVars == <<currentSessionId, sessions, created, sessT, closeT>>

VARIABLES
  \* ---- FlinkNotebookController: one executeCell() on one cell ----
  run,               \* the locals of executeCell / fetchResults / the result loops
  streamingCells,    \* this.streamingCells.get(cellKey) of that cell
  cancelT,           \* the cancelOperation(cell) call: where it is suspended
  snapshot,          \* the output last written to the cell
  \* ---- SQL Gateway: the operation of the statement ----
  op,                \* its status on the gateway
  served,            \* number of rows the gateway has served for it so far
  \* ---- observations ----
  obs                \* what was seen at the classification, at the cancel
                     \* request and at each fetch of the streaming loop

runVars == <<run, streamingCells, cancelT, snapshot, op, served, obs>>

\* The registry of streaming cells with several cells in it
VARIABLES
  registry,   \* streamingCells: cell key -> StreamingCellInfo
  deleting,   \* cell keys whose cancelOperation() awaits the gateway's DELETE
  byJob       \* the job of the stopStreamingByJobId() call just made, or 0

regVars == <<registry, deleting, byJob>>

\* The registry of streaming cells under its keys: getCellKey() is the URI
\* of the notebook and the index of the cell, and the index of a cell moves
\* when the notebook is edited
VARIABLES
  cellIndex,  \* run -> the index its cell has now
  loops,      \* run -> its fetchStreamingResults(): where it is, its cellKey
  entries,    \* streamingCells: key -> the record set under it
  cancelBy,   \* key -> the run whose cancelOperation() awaits its DELETE, or 0
  actor       \* the run whose control call or loop exit acted last, or 0

keyVars == <<cellIndex, loops, entries, cancelBy, actor>>

\* dispose() of the controller: "no", or what the statement was doing when
\* the controller was disposed ("streaming": its loop was running)
VARIABLE disposed

\* The catalog browser (CatalogService) on the session it shares with the
\* notebook
VARIABLES
  current,  \* the session on the gateway: its current catalog and database
  browse    \* the browse call: its position, its arguments, and what the
            \* session's catalog and database were when it was called

catVars == <<current, browse>>

vars == <<supVars, sessVars, runVars, regVars, keyVars, disposed, catVars>>

(***************************************************************************)
(* ClusterStatus enum, clusterManager.ts:10-16                             *)
(***************************************************************************)
STOPPED == "stopped"
STARTING == "starting"
RUNNING == "running"
STOPPING == "stopping"
ERROR == "error"
ClusterStatus == {STOPPED, STARTING, RUNNING, STOPPING, ERROR}

\* exit codes as the ChildProcess reports them; "null" is JavaScript null
ExitCodes == {"null", "0", "1", "ENOENT"}
Signals == {"null", "SIGTERM", "SIGKILL"}

NoProc ==
  [os |-> "unspawned", exitCode |-> "null", signalCode |-> "null",
   sigterm |-> FALSE, sigkill |-> FALSE]

NoStart == [pc |-> "idle", tries |-> 0, target |-> 0, why |-> "none"]
NoStop == [pc |-> "idle", target |-> 0, during |-> FALSE]
NoExit == [seen |-> FALSE, was |-> "none", nh |-> 0, quiet |-> FALSE,
           before |-> FALSE, after |-> FALSE]

(***************************************************************************)
(* The supervisor's state as one record, so that the synchronous code of a *)
(* macrotask can be written as a composition of functions.                 *)
(***************************************************************************)
Cur ==
  [status |-> status, process |-> process, pid |-> pid, procs |-> procs,
   startT |-> startT, stopT |-> stopT, crashLog |-> crashLog,
   exitLog |-> exitLog, path |-> <<status>>]

Commit(s) ==
  /\ status' = s.status
  /\ process' = s.process
  /\ pid' = s.pid
  /\ procs' = s.procs
  /\ startT' = s.startT
  /\ stopT' = s.stopT
  /\ crashLog' = s.crashLog
  /\ exitLog' = s.exitLog
  /\ path' = s.path
  /\ UNCHANGED <<sessVars, runVars, regVars, keyVars, disposed, catVars>>

\* an assignment to this.status
SetStatus(s, v) == [s EXCEPT !.status = v, !.path = Append(@, v)]

\* this.process = null; this.pid = null
ClearHandle(s) == [s EXCEPT !.process = 0, !.pid = 0]

\* a child process is live when the OS still runs it and no SIGKILL is pending
Live(p) == procs[p].os = "alive" /\ ~procs[p].sigkill

\* ChildProcess.kill(signal): delivered only to a process the OS still runs
Kill(s, p, sig) ==
  IF s.procs[p].os = "alive"
  THEN IF sig = "SIGTERM"
       THEN [s EXCEPT !.procs[p].sigterm = TRUE]
       ELSE [s EXCEPT !.procs[p].sigkill = TRUE]
  ELSE s

\* notifyCrashHandlers(exitCode): one invocation per registered handler
notifyCrashHandlers(s, code, p) ==
  [s EXCEPT !.crashLog =
     @ \o [h \in 1..nHandlers |-> [handler |-> h, code |-> code, proc |-> p]]]

\* (mutant) getStatus() drops any handle, without looking at its exitCode
HandleExited_AnyHandle(s) == s.process # 0

\* getStatus(): the handle is dropped when its exitCode is set
HandleExited(s) == s.process # 0 /\ s.procs[s.process].exitCode # "null"

\* the 'error' observer of start()
ErrorObserver(s, p) == notifyCrashHandlers(SetStatus(s, ERROR), "null", p)

\* wasUnexpected of the 'exit' observer
wasUnexpected(st, code, signal) ==
  LET wasRunning == st = RUNNING
      wasStopping == st = STOPPING
  IN wasRunning /\ ~wasStopping /\ (code # "0" \/ signal # "null")

\* the 'exit' observer of start()
ExitObserver(s, p, code, signal) ==
  LET s1 == IF wasUnexpected(s.status, code, signal)
            THEN notifyCrashHandlers(SetStatus(s, ERROR), code, p)
            ELSE SetStatus(s, STOPPED)
  IN ClearHandle(s1)

\* the finally block of stop()
StopFinally(s) == SetStatus(ClearHandle(s), STOPPED)

\* the catch block of start(): the call of start i fails
StartCatch(s, i, why) ==
  [SetStatus(s, ERROR) EXCEPT !.startT[i].pc = "failed", !.startT[i].why = why]

\* stop() up to its await: TRUE when it has to wait for the process
StopWaits(s) == s.status # STOPPED /\ s.process # 0

StopBegin(s) ==
  IF s.status = STOPPED THEN s
  ELSE LET s1 == SetStatus(s, STOPPING)
       IN IF s1.process # 0 THEN Kill(s1, s1.process, "SIGTERM") ELSE s1

\* (mutant) the timer's test of exitCode is inverted
ForceKillNeeded_Inverted(s) == s.process # 0 /\ s.procs[s.process].exitCode # "null"

\* the 10 s timer of stop(): force the kill when the handle has not exited
ForceKillNeeded(s) == s.process # 0 /\ s.procs[s.process].exitCode = "null"

StopTimer(s) ==
  IF ForceKillNeeded(s) THEN Kill(s, s.process, "SIGKILL") ELSE s

\* exitLog[p].quiet: start() made p the running process and since then only
\* getStatus() and onCrash() were called; any other step resets it.
\* exitLog[p].before / after: getStatus() was called in that period before /
\* after the exit of p was observed
Meddle(s) ==
  [s EXCEPT !.exitLog = [p \in Starts |->
                           [@[p] EXCEPT !.quiet = FALSE, !.before = FALSE, !.after = FALSE]]]

(***************************************************************************)
(* Init: the state after `new ClusterManager(config)`.                     *)
(***************************************************************************)
SupInit ==
  /\ status = STOPPED
  /\ process = 0
  /\ pid = 0
  /\ nHandlers = 0
  /\ procs = [p \in Starts |-> NoProc]
  /\ startT = [i \in Starts |-> NoStart]
  /\ stopT = [j \in Stops |-> NoStop]
  /\ crashLog = <<>>
  /\ exitLog = [p \in Starts |-> NoExit]
  /\ path = <<STOPPED>>

\* calls are numbered in the order they are made
CallsMade ==
  Cardinality({i \in Starts : startT[i].pc # "idle"})
    + Cardinality({j \in Stops : stopT[j].pc # "idle"})

NextStart(i) ==
  /\ CallsMade < MaxCalls
  /\ startT[i].pc = "idle" /\ \A k \in 1..(i-1) : startT[k].pc # "idle"

NextStop(j) ==
  /\ CallsMade < MaxCalls
  /\ stopT[j].pc = "idle" /\ \A k \in 1..(j-1) : stopT[k].pc # "idle"

\* (mutant) start() is refused only while the cluster is running
StartRefused_RunningOnly(st) == st = RUNNING

\* start() is refused while the cluster is running or starting
StartRefused(st) == st = RUNNING \/ st = STARTING

(***************************************************************************)
(* start(): the synchronous part up to the first await of waitForGateway.  *)
(*   artifact: "ok", or the JAR / the configuration directory is missing   *)
(*   spawned:  "ok"; "enoent" (spawn fails asynchronously: the ChildProcess*)
(*             has no pid and emits 'error' on the next tick); "throw"     *)
(*             (spawn throws)                                              *)
(***************************************************************************)
StartBody(s, i, artifact, spawned) ==
  IF StartRefused(s.status)
  THEN [s EXCEPT !.startT[i].pc = "rejected", !.startT[i].why = "busy"]
  ELSE
    LET s1 == SetStatus(s, STARTING) IN
    IF artifact # "ok"
    THEN [SetStatus(s1, ERROR) EXCEPT !.startT[i].pc = "failed",
                                      !.startT[i].why = "config"]
    ELSE IF spawned = "throw" THEN StartCatch(s1, i, "spawn")
    ELSE IF spawned = "ok"
    THEN [s1 EXCEPT !.process = i, !.pid = i, !.procs[i].os = "alive",
                    !.startT[i].pc = "probe"]
    ELSE \* this.pid = this.process.pid || null; then the 'error' event
         ErrorObserver(
           [s1 EXCEPT !.process = i, !.pid = 0, !.procs[i].os = "nospawn",
                      !.procs[i].exitCode = "ENOENT",
                      !.startT[i].pc = "probe"], i)

StartCall(i, artifact, spawned) ==
  /\ NextStart(i)
  /\ Commit(Meddle(StartBody(Cur, i, artifact, spawned)))
  /\ UNCHANGED nHandlers

(***************************************************************************)
(* waitForGateway(): the answer of axios.get(/v1/info).  A 200 can only    *)
(* come from a child process the OS still runs.                            *)
(***************************************************************************)
GatewayUp == \E p \in Starts : procs[p].os = "alive"

ProbeOk(i) ==
  /\ startT[i].pc = "probe"
  /\ GatewayUp
  /\ LET s == Meddle([SetStatus(Cur, RUNNING) EXCEPT !.startT[i].pc = "done"])
     IN Commit(IF s.process # 0 THEN [s EXCEPT !.exitLog[s.process].quiet = TRUE] ELSE s)
  /\ UNCHANGED nHandlers


\* while (Date.now() - startTime < timeout): each iteration takes at least 1 s
ProbeWindowOpen(tries) == tries < MaxProbes

\* the loop's check that the process is still alive
ProcessTerminated(s) == s.process # 0 /\ s.procs[s.process].exitCode # "null"

\* axios.get fails, then after the 1 s sleep: the loop head, and past the
\* probe window `await this.stop()`
SleepBody(s, i) ==
  LET n == s.startT[i].tries + 1
      s1 == [s EXCEPT !.startT[i].tries = n]
  IN IF ProbeWindowOpen(n)
     THEN IF ProcessTerminated(s1) THEN StartCatch(s1, i, "exited")
          ELSE [s1 EXCEPT !.startT[i].pc = "probe"]
     ELSE IF StopWaits(s1)
          THEN [StopBegin(s1) EXCEPT !.startT[i].pc = "stopwait",
                                     !.startT[i].target = s1.process]
          ELSE StartCatch(StopBegin(s1), i, "timeout")

ProbeRetry(i) ==
  /\ startT[i].pc = "probe"
  /\ Commit(Meddle(SleepBody(Cur, i)))
  /\ UNCHANGED nHandlers

(***************************************************************************)
(* stop(): an external call, up to its await.                              *)
(***************************************************************************)
StopBody(s, j) ==
  LET mark == [s EXCEPT !.stopT[j].during = s.status = STARTING]
  IN IF StopWaits(mark)
     THEN [StopBegin(mark) EXCEPT !.stopT[j].pc = "wait",
                                  !.stopT[j].target = mark.process]
     ELSE [StopBegin(mark) EXCEPT !.stopT[j].pc = "done"]

StopCall(j) ==
  /\ NextStop(j)
  /\ Commit(Meddle(StopBody(Cur, j)))
  /\ UNCHANGED nHandlers

\* the continuations of the stop() calls in W (external) and N (made by
\* waitForGateway of the starts in N): every finally block runs first, then
\* waitForGateway throws and start() catches
RECURSIVE FailStarts(_, _)
FailStarts(s, N) ==
  IF N = {} THEN s
  ELSE LET i == CHOOSE x \in N : \A y \in N : x <= y
       IN FailStarts(StartCatch(s, i, "timeout"), N \ {i})

ResolveStops(s, W, N) ==
  IF W = {} /\ N = {} THEN s
  ELSE LET s1 == StopFinally(s)
           s2 == [s1 EXCEPT !.stopT = [j \in Stops |->
                              IF j \in W THEN [@[j] EXCEPT !.pc = "done"] ELSE @[j]]]
       IN FailStarts(s2, N)

\* the 10 s timer of an external stop() fires
StopTimeout(j) ==
  /\ stopT[j].pc = "wait"
  /\ Commit(Meddle(ResolveStops(StopTimer(Cur), {j}, {})))
  /\ UNCHANGED nHandlers

\* the 10 s timer of the stop() made by waitForGateway fires
NestedStopTimeout(i) ==
  /\ startT[i].pc = "stopwait"
  /\ Commit(Meddle(ResolveStops(StopTimer(Cur), {}, {i})))
  /\ UNCHANGED nHandlers

(***************************************************************************)
(* The process host.  Child process p ends, by itself with exit code c or  *)
(* by a signal stop() sent, and Node delivers the exit in one callback:    *)
(* exitCode / signalCode are set and 'exit' is emitted to the observer of  *)
(* start() and to the stop() calls waiting on p.                           *)
(***************************************************************************)
ExitBody(s, p, code, signal) ==
  LET s0 == [s EXCEPT !.procs[p] = [os |-> "exited", exitCode |-> code,
                                    signalCode |-> signal, sigterm |-> FALSE,
                                    sigkill |-> FALSE],
                      !.exitLog[p] = [s.exitLog[p] EXCEPT !.seen = TRUE,
                                        !.was = s.status, !.nh = nHandlers]]
      s1 == ExitObserver(s0, p, code, signal)
      W == {j \in Stops : s.stopT[j].pc = "wait" /\ s.stopT[j].target = p}
      N == {i \in Starts : s.startT[i].pc = "stopwait" /\ s.startT[i].target = p}
  IN ResolveStops(s1, W, N)

ProcExit(p, code, signal) ==
  /\ procs[p].os = "alive"
  /\ \/ signal = "null" /\ code \in {"0", "1"}
     \/ code = "null" /\ signal = "SIGTERM" /\ procs[p].sigterm
     \/ code = "null" /\ signal = "SIGKILL"   \* by stop(), or from outside
  /\ LET s == ExitBody(Cur, p, code, signal)
     IN Commit([s EXCEPT !.exitLog = [q \in Starts |->
                   IF q = p THEN @[q]
                   ELSE [@[q] EXCEPT !.quiet = FALSE, !.before = FALSE, !.after = FALSE]]])
  /\ UNCHANGED nHandlers

(***************************************************************************)
(* getStatus() and onCrash()                                               *)
(***************************************************************************)
GetStatusBody(s) ==
  IF HandleExited(s) THEN ClearHandle(SetStatus(s, STOPPED)) ELSE s

GetStatus ==
  /\ LET s == GetStatusBody(Cur)
     IN Commit([s EXCEPT !.exitLog = [p \in Starts |->
                   IF ~@[p].quiet THEN @[p]
                   ELSE IF @[p].seen THEN [@[p] EXCEPT !.after = TRUE]
                   ELSE [@[p] EXCEPT !.before = TRUE]]])
  /\ UNCHANGED nHandlers

OnCrash ==
  /\ nHandlers < MaxHandlers
  /\ nHandlers' = nHandlers + 1
  /\ path' = <<status>>
  /\ UNCHANGED <<status, process, pid, procs, startT, stopT, crashLog, exitLog>>
  /\ UNCHANGED <<sessVars, runVars, regVars, keyVars, disposed, catVars>>

SupNext ==
  \/ \E i \in Starts, a \in {"ok", "nojar", "noconf"}, sp \in {"ok", "enoent", "throw"} :
        StartCall(i, a, sp)
  \/ \E i \in Starts : ProbeOk(i)
  \/ \E i \in Starts : ProbeRetry(i)
  \/ \E i \in Starts : NestedStopTimeout(i)
  \/ \E j \in Stops : StopCall(j)
  \/ \E j \in Stops : StopTimeout(j)
  \/ \E p \in Starts, c \in ExitCodes, sg \in Signals : ProcExit(p, c, sg)
  \/ GetStatus
  \/ OnCrash

(***************************************************************************)
(* One start() call and one stop() call on a fresh ClusterManager, in any  *)
(* interleaving with each other, with getStatus() / onCrash() calls and    *)
(* with the events of the child process.                                   *)
(***************************************************************************)
PairNext ==
  \/ \E a \in {"ok", "nojar", "noconf"}, sp \in {"ok", "enoent", "throw"} :
        StartCall(1, a, sp)
  \/ ProbeOk(1)
  \/ ProbeRetry(1)
  \/ NestedStopTimeout(1)
  \/ StopCall(1)
  \/ StopTimeout(1)
  \/ \E c \in ExitCodes, sg \in Signals : ProcExit(1, c, sg)
  \/ GetStatus
  \/ OnCrash

(***************************************************************************)
(* Two start() calls on a fresh ClusterManager and no stop() call, in any  *)
(* interleaving with each other and with the events of the child           *)
(* processes.                                                              *)
(***************************************************************************)
StartsNext ==
  \/ \E i \in 1..2, a \in {"ok", "nojar", "noconf"}, sp \in {"ok", "enoent", "throw"} :
        StartCall(i, a, sp)
  \/ \E i \in 1..2 : ProbeOk(i)
  \/ \E i \in 1..2 : ProbeRetry(i)
  \/ \E i \in 1..2 : NestedStopTimeout(i)
  \/ \E p \in 1..2, c \in ExitCodes, sg \in Signals : ProcExit(p, c, sg)
  \/ GetStatus
  \/ OnCrash

(***************************************************************************)
(* SessionManager (providers/catalogTreeProvider.ts) against the session   *)
(* endpoints of the SQL Gateway.  extension.ts hands the one instance to   *)
(* the CatalogService and to the FlinkNotebookController, so calls of      *)
(* getOrCreateSession() overlap.                                           *)
(***************************************************************************)
Callers == 1..MaxCallers

\* a getOrCreateSession() call: where it is, the id it checks, whether the
\* check failed, and the value it returns
NoSess == [pc |-> "idle", id |-> 0, stale |-> FALSE, ret |-> 0]
\* the closeSession() call: where it is, the id it closes, and whether a
\* closeSession() call has completed with no other call of the
\* SessionManager acting since, and why its DELETE was rejected
NoClose == [pc |-> "idle", id |-> 0, after |-> FALSE, why |-> "none"]

SessInit ==
  /\ currentSessionId = 0
  /\ sessions = {}
  /\ created = 0
  /\ sessT = [c \in Callers |-> NoSess]
  /\ closeT = NoClose

SessResting(c) == sessT[c].pc \in {"idle", "done", "failed"}

\* getOrCreateSession() up to its first await: the existence check of the
\* cached id, or with no cached id the POST that creates a session
GetOrCreateCall(c) ==
  /\ SessResting(c)
  /\ sessT' = [sessT EXCEPT ![c] =
       IF currentSessionId # 0
       THEN [NoSess EXCEPT !.pc = "verify", !.id = currentSessionId]
       ELSE [NoSess EXCEPT !.pc = "create"]]
  /\ UNCHANGED <<currentSessionId, sessions, created>>
  /\ closeT' = [closeT EXCEPT !.after = FALSE]
  /\ UNCHANGED <<supVars, runVars, regVars, keyVars, disposed, catVars>>

\* getSession(id) answers 200: `return this.currentSessionId`
VerifyOk(c) ==
  /\ sessT[c].pc = "verify"
  /\ sessT[c].id \in sessions
  /\ sessT' = [sessT EXCEPT ![c].pc = "done", ![c].ret = currentSessionId]
  /\ UNCHANGED <<currentSessionId, sessions, created>>
  /\ closeT' = [closeT EXCEPT !.after = FALSE]
  /\ UNCHANGED <<supVars, runVars, regVars, keyVars, disposed, catVars>>

\* getSession(id) fails (the session is gone, or any other error): the
\* cached id is dropped and the POST that creates a session is sent
VerifyFail(c) ==
  /\ sessT[c].pc = "verify"
  /\ currentSessionId' = 0
  /\ sessT' = [sessT EXCEPT ![c].pc = "create", ![c].stale = TRUE]
  /\ UNCHANGED <<sessions, created>>
  /\ closeT' = [closeT EXCEPT !.after = FALSE]
  /\ UNCHANGED <<supVars, runVars, regVars, keyVars, disposed, catVars>>

\* createSession() answers with a new handle, which becomes the cached id
CreateOk(c) ==
  /\ sessT[c].pc = "create"
  /\ created < MaxSessions
  /\ created' = created + 1
  /\ sessions' = sessions \cup {created + 1}
  /\ currentSessionId' = created + 1
  /\ sessT' = [sessT EXCEPT ![c].pc = "done", ![c].ret = created + 1]
  /\ closeT' = [closeT EXCEPT !.after = FALSE]
  /\ UNCHANGED <<supVars, runVars, regVars, keyVars, disposed, catVars>>

\* createSession() fails: getOrCreateSession() throws
CreateFail(c) ==
  /\ sessT[c].pc = "create"
  /\ sessT' = [sessT EXCEPT ![c].pc = "failed"]
  /\ UNCHANGED <<currentSessionId, sessions, created>>
  /\ closeT' = [closeT EXCEPT !.after = FALSE]
  /\ UNCHANGED <<supVars, runVars, regVars, keyVars, disposed, catVars>>

\* closeSession() up to its await
CloseCall ==
  /\ closeT.pc \in {"idle", "done", "failed"}
  /\ closeT' = IF currentSessionId # 0
               THEN [NoClose EXCEPT !.pc = "closing", !.id = currentSessionId]
               ELSE [NoClose EXCEPT !.pc = "done", !.after = TRUE]
  /\ UNCHANGED <<currentSessionId, sessions, created, sessT>>
  /\ UNCHANGED <<supVars, runVars, regVars, keyVars, disposed, catVars>>

\* the DELETE of the session is answered 200: this.currentSessionId = null
CloseOk ==
  /\ closeT.pc = "closing"
  /\ closeT.id \in sessions
  /\ sessions' = sessions \ {closeT.id}
  /\ currentSessionId' = 0
  /\ closeT' = [closeT EXCEPT !.pc = "done", !.after = TRUE]
  /\ UNCHANGED <<created, sessT>>
  /\ UNCHANGED <<supVars, runVars, regVars, keyVars, disposed, catVars>>

\* the DELETE fails, because the gateway does not know the session any more
\* ("gone") or for another reason: closeSession() throws and the cached id
\* stays
CloseFail ==
  /\ closeT.pc = "closing"
  /\ \E why \in {"gone", "other"} :
       /\ why = "gone" => closeT.id \notin sessions
       /\ closeT' = [closeT EXCEPT !.pc = "failed", !.after = TRUE,
                                   !.why = why]
  /\ UNCHANGED <<currentSessionId, sessions, created, sessT>>
  /\ UNCHANGED <<supVars, runVars, regVars, keyVars, disposed, catVars>>

\* the gateway drops a session by itself (idle timeout)
SessionExpire(sid) ==
  /\ sid \in sessions
  /\ sessions' = sessions \ {sid}
  /\ UNCHANGED <<currentSessionId, created, sessT, closeT>>
  /\ UNCHANGED <<supVars, runVars, regVars, keyVars, disposed, catVars>>

SessNext ==
  \/ \E c \in Callers : GetOrCreateCall(c)
  \/ \E c \in Callers : VerifyOk(c)
  \/ \E c \in Callers : VerifyFail(c)
  \/ \E c \in Callers : CreateOk(c)
  \/ \E c \in Callers : CreateFail(c)
  \/ CloseCall
  \/ CloseOk
  \/ CloseFail
  \/ \E sid \in 1..MaxSessions : SessionExpire(sid)

(***************************************************************************)
(* FlinkNotebookController (providers/catalogTreeProvider.ts): one         *)
(* executeCell() on one cell, the control calls on that cell, and the      *)
(* operation endpoints of the SQL Gateway.                                 *)
(*                                                                         *)
(* A wait of the status loop, of the first-fetch loop and of the batch     *)
(* loop touches no state another call reads, so the answer to one request, *)
(* the wait after it and the sending of the next request are one action.   *)
(* The streaming loop reads the registry after each wait, so its waits are *)
(* steps of their own.                                                     *)
(***************************************************************************)
OpStatuses == {"PENDING", "RUNNING", "FINISHED", "ERROR", "CANCELED"}

\* the gateway answers fetches for an operation that exists and has neither
\* failed nor been canceled
OpLive(o) == o \in {"PENDING", "RUNNING", "FINISHED"}

\* ResultSet.nextResultUri: absent, a URI whose last segment is a token, or
\* a string that holds no '/'
NoNext == [form |-> "none", tok |-> 0]
Opaque == [form |-> "opaque", tok |-> 0]
Uri(t) == [form |-> "uri", tok |-> t]

Cursors(tok) ==
  {NoNext} \cup {Uri(t) : t \in 0..MaxToken}
    \cup (IF tok < MaxToken THEN {Opaque} ELSE {})

\* the pages the gateway can answer to a fetch at token tok when it has
\* `room` rows left to serve: n rows, results.columns present or not
Pages(tok, room) ==
  {[kind |-> "NOT_READY", n |-> 0, next |-> x, cols |-> FALSE] :
      x \in {NoNext, Uri(tok)}}
    \cup {[kind |-> "PAYLOAD", n |-> k, next |-> x, cols |-> TRUE] :
            k \in 0..room, x \in Cursors(tok)}
    \cup {[kind |-> "EOS", n |-> 0, next |-> x, cols |-> TRUE] :
            x \in Cursors(tok)}

NoPage == [kind |-> "none", n |-> 0, next |-> NoNext, cols |-> FALSE]

NoRun ==
  [pc |-> "idle", attempts |-> 0, fetchAttempts |-> 0, token |-> 0,
   columns |-> FALSE, rows |-> <<>>, statusInfo |-> "undefined",
   firstResult |-> NoPage, wasCancelled |-> FALSE, live |-> FALSE]

NoCell == [present |-> FALSE, stopRequested |-> FALSE, paused |-> FALSE]

NoSnap == [status |-> "none", n |-> 0]

NoObs ==
  [mode |-> "none", subscribed |-> FALSE,
   kind |-> "none", next |-> "none", status |-> "undefined",
   cancelSet |-> FALSE, cancelWait |-> FALSE, cancelRows |-> 0, cancelExtra |-> 0,
   pauseSeen |-> FALSE, pauseTok |-> 0,
   reqPaused |-> FALSE, reqResumed |-> FALSE, reqResumeTok |-> 0, reqTok |-> 0,
   capAsked |-> FALSE, reqCapped |-> FALSE, reqAsked |-> FALSE, declined |-> FALSE,
   lastTok |-> 0]

RunInit ==
  /\ run = NoRun
  /\ streamingCells = NoCell
  /\ cancelT = "idle"
  /\ snapshot = NoSnap
  /\ op = "NONE"
  /\ served = 0
  /\ obs = NoObs

RCur ==
  [run |-> run, cells |-> streamingCells, snapshot |-> snapshot, op |-> op,
   served |-> served, obs |-> obs]

RCommit(r) ==
  /\ run' = r.run
  /\ streamingCells' = r.cells
  /\ snapshot' = r.snapshot
  /\ op' = r.op
  /\ served' = r.served
  /\ obs' = r.obs
  /\ UNCHANGED <<supVars, sessVars, regVars, keyVars, disposed, catVars>>

\* execution.replaceOutput(...) with the row buffer as it is now
Emit(r, st) == [r EXCEPT !.snapshot = [status |-> st, n |-> Len(r.run.rows)]]

\* executeCell() is over: of its locals only the row buffer, which the
\* output shows, is kept
Return(r, pc) ==
  [r EXCEPT !.run = [NoRun EXCEPT !.pc = pc, !.rows = r.run.rows],
            !.obs.lastTok = 0]

\* the catch block of executeCell(): the output becomes the error
Fail(r) == Return([r EXCEPT !.snapshot = [status |-> "failure", n |-> 0]], "failed")

\* a request is sent to the gateway; run.live: the operation can be fetched
\* from when the request is sent
Send(r, pc) ==
  [r EXCEPT !.run.pc = pc, !.run.live = OpLive(r.op),
            !.obs.lastTok = IF pc \in {"first", "bfetch", "sfetch"}
                            THEN r.run.token ELSE @]

\* the call is suspended on something else than a request
Park(r, pc) == [r EXCEPT !.run.pc = pc, !.run.live = FALSE]

\* the gateway serves a page: its rows are the next page.n rows of the result
Serve(r, page) == [r EXCEPT !.served = @ + page.n]

\* `if (rawData.length > 0 && columns) rows.push(...transformRows(...))`,
\* for the page just served
PushRows(r, page) ==
  IF page.n > 0 /\ r.run.columns
  THEN [r EXCEPT !.run.rows = @ \o [k \in 1..page.n |-> r.served - page.n + k]]
  ELSE r

\* `resultType === 'EOS' || !nextToken`
IsComplete(page) == page.kind = "EOS" \/ page.next = NoNext

\* the token taken from nextResultUri when fetchResults() hands over
Handover(next) == IF next.form = "uri" THEN next.tok ELSE 1

\* the token taken from nextResultUri in the batch and streaming loops
Advance(token, next) == IF next.form = "uri" THEN next.tok ELSE token + 1

\* (mutant) the classification does not look at the operation status
IsStreaming_NoStatus(page, st) == page.kind # "EOS" /\ page.next # NoNext

\* isStreaming of fetchResults()
IsStreaming(page, st) ==
  page.kind # "EOS" /\ page.next # NoNext /\ st = "RUNNING"

(***************************************************************************)
(* executeCell() up to the first status request of fetchResults().         *)
(***************************************************************************)
ExecuteCell(outcome) ==
  /\ run.pc = "idle"
  /\ RCommit(CASE outcome = "empty" -> Return(RCur, "done")
               [] outcome = "failed" -> Fail(RCur)
               [] OTHER -> Send([RCur EXCEPT !.op = "PENDING"], "status"))
  /\ UNCHANGED cancelT

\* the gateway moves the operation on; a running job can be canceled from
\* outside the extension
OpAdvance(o) ==
  /\ \/ op = "PENDING" /\ o \in {"RUNNING", "FINISHED", "ERROR"}
     \/ op = "RUNNING" /\ o \in {"FINISHED", "ERROR", "CANCELED"}
  /\ op' = o
  /\ UNCHANGED <<run, streamingCells, cancelT, snapshot, served, obs>>
  /\ UNCHANGED <<supVars, sessVars, regVars, keyVars, disposed, catVars>>

(***************************************************************************)
(* The status loop.                                                        *)
(***************************************************************************)
\* (mutant) the status loop does not look for ERROR
StatusBody_IgnoresError(r, st) ==
  LET r1 == [r EXCEPT !.run.statusInfo = st] IN
  IF st = "FINISHED" \/ st = "RUNNING"
  THEN Send([r1 EXCEPT !.run.attempts = 0], "first")
  ELSE IF r1.run.attempts + 1 < maxAttempts
  THEN Send([r1 EXCEPT !.run.attempts = @ + 1], "status")
  ELSE Send([r1 EXCEPT !.run.attempts = 0], "first")

\* obs.status: the status the statement failed on, or was classified with
StatusBody(r, st) ==
  LET r1 == [r EXCEPT !.run.statusInfo = st] IN
  IF st = "ERROR" THEN Fail([r1 EXCEPT !.obs.status = st])
  ELSE IF st = "FINISHED" \/ st = "RUNNING"
  THEN Send([r1 EXCEPT !.run.attempts = 0], "first")
  ELSE IF r1.run.attempts + 1 < maxAttempts
  THEN Send([r1 EXCEPT !.run.attempts = @ + 1], "status")
  ELSE Send([r1 EXCEPT !.run.attempts = 0], "first")

StatusReply ==
  /\ run.pc = "status"
  /\ op \in OpStatuses
  /\ RCommit(StatusBody(RCur, op))
  /\ UNCHANGED cancelT

StatusFail ==
  /\ run.pc = "status"
  /\ RCommit(Fail(RCur))
  /\ UNCHANGED cancelT

(***************************************************************************)
(* The first-fetch loop, the classification and the hand-over.             *)
(***************************************************************************)
\* the code after the first-fetch loop, up to the next await
Accept(r) ==
  LET page == r.run.firstResult
      r1 == IF page.cols THEN [r EXCEPT !.run.columns = TRUE] ELSE r
      r2 == [PushRows(r1, page) EXCEPT
               !.run.fetchAttempts = 0,
               !.obs.kind = page.kind, !.obs.next = page.next.form,
               !.obs.status = r.run.statusInfo]
  IN IF IsStreaming(page, r2.run.statusInfo)
     THEN Park([r2 EXCEPT !.cells = [present |-> TRUE, stopRequested |-> FALSE,
                                     paused |-> FALSE],
                          !.obs.mode = "streaming", !.obs.subscribed = TRUE],
               "registered")
     ELSE LET r3 == [r2 EXCEPT !.obs.mode = "batch"] IN
          IF ~IsComplete(page)
          THEN Send([r3 EXCEPT !.run.token = Handover(page.next),
                               !.run.firstResult = NoPage,
                               !.run.statusInfo = "undefined"], "bfetch")
          ELSE Return(Emit(r3, "table"), "done")

\* (mutant) an empty PAYLOAD page moves the token to any nextResultUri
FirstBody_AnyNext(r) ==
  LET page == r.run.firstResult
      again == [r EXCEPT !.run.fetchAttempts = @ + 1]
  IN IF r.run.fetchAttempts >= maxFetchAttempts THEN Accept(r)
     ELSE IF page.kind = "EOS" THEN Accept(r)
     ELSE IF page.kind = "PAYLOAD" /\ page.n > 0 THEN Accept(r)
     ELSE IF page.kind = "PAYLOAD" /\ page.next.form = "uri"
     THEN Send([again EXCEPT !.run.token = page.next.tok], "first")
     ELSE Send(again, "first")

\* one pass of the first-fetch loop over the page that has arrived
FirstBody(r) ==
  LET page == r.run.firstResult
      again == [r EXCEPT !.run.fetchAttempts = @ + 1]
  IN IF r.run.fetchAttempts >= maxFetchAttempts THEN Accept(r)
     ELSE IF page.kind = "EOS" THEN Accept(r)
     ELSE IF page.kind = "PAYLOAD" /\ page.n > 0 THEN Accept(r)
     ELSE IF page.kind = "PAYLOAD" /\ page.next.form = "uri"
              /\ page.next.tok > r.run.token
     THEN Send([again EXCEPT !.run.token = page.next.tok], "first")
     ELSE Send(again, "first")

FirstPage ==
  /\ run.pc = "first"
  /\ run.live
  /\ \E page \in Pages(run.token, MaxRows - served) :
        RCommit(FirstBody(Serve([RCur EXCEPT !.run.firstResult = page], page)))
  /\ UNCHANGED cancelT

FirstFail ==
  /\ run.pc = "first"
  /\ RCommit(Fail(RCur))
  /\ UNCHANGED cancelT

(***************************************************************************)
(* The batch loop.                                                         *)
(***************************************************************************)
BatchBody(r, page) ==
  LET r1 == PushRows(r, page)
      r2 == IF page.n > 0 /\ r1.run.columns /\ Len(r1.run.rows) % 10 = 0
            THEN Emit(r1, "table") ELSE r1
  IN IF ~IsComplete(page)
     THEN Send([r2 EXCEPT !.run.token = Advance(@, page.next)], "bfetch")
     ELSE Return(Emit(r2, "table"), "done")

BatchPage ==
  /\ run.pc = "bfetch"
  /\ run.live
  /\ \E page \in Pages(run.token, MaxRows - served) :
        RCommit(BatchBody(Serve(RCur, page), page))
  /\ UNCHANGED cancelT

BatchFail ==
  /\ run.pc = "bfetch"
  /\ RCommit(Fail(RCur))
  /\ UNCHANGED cancelT

(***************************************************************************)
(* The streaming loop.                                                     *)
(***************************************************************************)
\* the code after the loop: the final output unless canceled, the removal
\* of the registry entry, then fetchResults() returns and executeCell()
\* ends the execution
LoopExit(r) ==
  LET r1 == IF r.run.wasCancelled THEN r ELSE Emit(r, "table")
      r2 == [r1 EXCEPT !.obs.pauseSeen = FALSE, !.obs.pauseTok = 0]
  IN Return([r2 EXCEPT !.cells = NoCell, !.obs.capAsked = FALSE], "done")

\* `maxRows > 0 && rows.length >= maxRows`
RowLimitReached(rows) == MaxStreamingRows > 0 /\ Len(rows) >= MaxStreamingRows

\* (mutant) the loop does not look at stopRequested
StopSeen_Never(info) == FALSE

\* `streamingInfo?.stopRequested`
StopSeen(info) == info.present /\ info.stopRequested

\* (mutant) the loop does not look at paused
PausedSeen_Never(info) == FALSE

\* `streamingInfo?.paused`
PausedSeen(info) == info.present /\ info.paused

\* (mutant) the head of an iteration looks at paused first
StreamTop_PausedFirst(r) ==
  LET info == r.cells IN
  IF PausedSeen(info)
  THEN [Park(r, "spaused") EXCEPT
          !.obs.pauseTok = IF r.obs.pauseSeen THEN @ ELSE r.run.token,
          !.obs.pauseSeen = TRUE]
  ELSE IF StopSeen(info)
  THEN LoopExit(Emit([r EXCEPT !.run.wasCancelled = TRUE], "canceled"))
  ELSE [Send(r, "sfetch") EXCEPT
          !.obs.reqTok = r.run.token,
          !.obs.reqPaused = info.present /\ info.paused,
          !.obs.reqResumed = r.obs.pauseSeen,
          !.obs.reqResumeTok = r.obs.pauseTok,
          !.obs.pauseSeen = FALSE,
          !.obs.pauseTok = 0,
          !.obs.reqCapped = RowLimitReached(r.run.rows),
          !.obs.reqAsked = r.obs.capAsked,
          !.obs.cancelExtra = IF r.obs.cancelSet /\ @ < 2 THEN @ + 1 ELSE @]

\* the head of one iteration: stopRequested, then paused, then the fetch
StreamTop(r) ==
  LET info == r.cells IN
  IF StopSeen(info)
  THEN LoopExit(Emit([r EXCEPT !.run.wasCancelled = TRUE], "canceled"))
  ELSE IF PausedSeen(info)
  THEN [Park(r, "spaused") EXCEPT
          !.obs.pauseTok = IF r.obs.pauseSeen THEN @ ELSE r.run.token,
          !.obs.pauseSeen = TRUE]
  ELSE [Send(r, "sfetch") EXCEPT
          !.obs.reqTok = r.run.token,
          !.obs.reqPaused = info.present /\ info.paused,
          !.obs.reqResumed = r.obs.pauseSeen,
          !.obs.reqResumeTok = r.obs.pauseTok,
          !.obs.pauseSeen = FALSE,
          !.obs.pauseTok = 0,
          !.obs.reqCapped = RowLimitReached(r.run.rows),
          !.obs.reqAsked = r.obs.capAsked,
          !.obs.cancelExtra = IF r.obs.cancelSet /\ @ < 2 THEN @ + 1 ELSE @]

\* after the registration: the first output, the hand-over of the token and
\* the first iteration of fetchStreamingResults()
StreamStart ==
  /\ run.pc = "registered"
  /\ RCommit(StreamTop([Emit(RCur, "streaming") EXCEPT
                          !.run.token = Handover(run.firstResult.next),
                          !.run.firstResult = NoPage,
                          !.run.statusInfo = "undefined"]))
  /\ UNCHANGED cancelT

\* a wait of the loop is over: the poll interval, the interval of a paused
\* loop, or the 2 s after a failed fetch
Waiting(pc) == pc \in {"ssleep", "spaused", "sretry"}

Wake ==
  /\ Waiting(run.pc)
  /\ RCommit(StreamTop(RCur))
  /\ UNCHANGED cancelT

\* the fetch in flight is answered
Answered(r) ==
  [r EXCEPT !.obs.reqPaused = FALSE, !.obs.reqResumed = FALSE,
            !.obs.reqResumeTok = 0, !.obs.reqTok = 0,
            !.obs.reqCapped = FALSE, !.obs.reqAsked = FALSE]

StreamBody(r, page) ==
  LET r1 == PushRows([Answered(r) EXCEPT !.obs.capAsked = FALSE], page)
      r2 == IF page.n > 0 /\ r1.run.columns THEN Emit(r1, "streaming") ELSE r1
  IN IF ~IsComplete(page)
     THEN LET r3 == [r2 EXCEPT !.run.token = Advance(@, page.next)] IN
          IF RowLimitReached(r3.run.rows)
          THEN Park(r3, "sprompt")
          ELSE Park(r3, "ssleep")
     ELSE LoopExit(r2)

StreamPage ==
  /\ run.pc = "sfetch"
  /\ run.live
  /\ \E page \in Pages(run.token, MaxRows - served) :
        RCommit(StreamBody(Serve(RCur, page), page))
  /\ UNCHANGED cancelT

\* the fetch fails: the operation status is asked
StreamFetchFail ==
  /\ run.pc = "sfetch"
  /\ RCommit(Send(Answered(RCur), "sstatus"))
  /\ UNCHANGED cancelT

\* (mutant) only ERROR ends the loop
StreamStatusBody_ErrorOnly(r, st) ==
  IF st = "ERROR"
  THEN LoopExit(Emit([r EXCEPT !.run.wasCancelled = TRUE], "error"))
  ELSE Park(r, "sretry")

StreamStatusBody(r, st) ==
  IF st = "ERROR" \/ st = "CANCELED"
  THEN LoopExit(Emit([r EXCEPT !.run.wasCancelled = TRUE],
                     IF st = "CANCELED" THEN "canceled" ELSE "error"))
  ELSE Park(r, "sretry")

StreamStatusReply ==
  /\ run.pc = "sstatus"
  /\ op \in OpStatuses
  /\ RCommit(StreamStatusBody(RCur, op))
  /\ UNCHANGED cancelT

\* the status request fails too: the loop ends as canceled
StreamStatusFail ==
  /\ run.pc = "sstatus"
  /\ RCommit(LoopExit(Emit([RCur EXCEPT !.run.wasCancelled = TRUE], "canceled")))
  /\ UNCHANGED cancelT

\* the row limit was reached and the user answers the warning
PromptAnswer(choice) ==
  /\ run.pc = "sprompt"
  /\ RCommit(IF choice = "Continue"
             THEN Park([RCur EXCEPT !.obs.capAsked = TRUE], "ssleep")
             ELSE LoopExit([RCur EXCEPT !.obs.declined = TRUE]))
  /\ UNCHANGED cancelT

(***************************************************************************)
(* The control calls on the cell.                                          *)
(***************************************************************************)
\* pauseStreaming and resumeStreaming end with updateStreamingOutput() of
\* the rows that the second item of the present output holds: an output
\* with rows is shown again, as a streaming one
Refresh(snap) ==
  IF snap.status \in {"streaming", "canceled"}
       \/ (snap.status = "table" /\ snap.n > 0)
  THEN [status |-> "streaming", n |-> snap.n]
  ELSE snap

PauseStreaming_AndStop ==
  /\ streamingCells' = IF streamingCells.present
                       THEN [streamingCells EXCEPT !.paused = TRUE,
                                                   !.stopRequested = TRUE]
                       ELSE streamingCells
  /\ UNCHANGED <<run, cancelT, snapshot, op, served, obs>>
  /\ UNCHANGED <<supVars, sessVars, regVars, keyVars, disposed, catVars>>

PauseStreaming ==
  /\ streamingCells' = IF streamingCells.present
                       THEN [streamingCells EXCEPT !.paused = TRUE]
                       ELSE streamingCells
  /\ snapshot' = IF streamingCells.present THEN Refresh(snapshot) ELSE snapshot
  /\ UNCHANGED <<run, cancelT, op, served, obs>>
  /\ UNCHANGED <<supVars, sessVars, regVars, keyVars, disposed, catVars>>

ResumeStreaming ==
  /\ streamingCells' = IF streamingCells.present
                       THEN [streamingCells EXCEPT !.paused = FALSE]
                       ELSE streamingCells
  /\ snapshot' = IF streamingCells.present THEN Refresh(snapshot) ELSE snapshot
  /\ UNCHANGED <<run, cancelT, op, served, obs>>
  /\ UNCHANGED <<supVars, sessVars, regVars, keyVars, disposed, catVars>>

StopStreaming ==
  /\ streamingCells' = IF streamingCells.present
                       THEN [streamingCells EXCEPT !.stopRequested = TRUE]
                       ELSE streamingCells
  /\ UNCHANGED <<run, cancelT, snapshot, op, served, obs>>
  /\ UNCHANGED <<supVars, sessVars, regVars, keyVars, disposed, catVars>>

\* cancelOperation(cell) up to its await of the gateway's answer
CancelCall ==
  /\ cancelT = "idle"
  /\ IF streamingCells.present
     THEN /\ streamingCells' = [streamingCells EXCEPT !.stopRequested = TRUE]
          /\ cancelT' = "remote"
          /\ obs' = IF obs.cancelSet THEN obs
                    ELSE [obs EXCEPT !.cancelSet = TRUE,
                                     !.cancelWait = Waiting(run.pc),
                                     !.cancelRows = Len(run.rows),
                                     !.cancelExtra = 0]
     ELSE UNCHANGED <<streamingCells, cancelT, obs>>
  /\ UNCHANGED <<run, snapshot, op, served>>
  /\ UNCHANGED <<supVars, sessVars, regVars, keyVars, disposed, catVars>>

\* the gateway answers the DELETE of the operation with 200: the operation
\* is canceled, or closed and gone
CancelRemoteOk(o) ==
  /\ cancelT = "remote"
  /\ o \in {"CANCELED", "GONE"}
  /\ op' = o
  /\ cancelT' = "context"
  /\ UNCHANGED <<run, streamingCells, snapshot, served, obs>>
  /\ UNCHANGED <<supVars, sessVars, regVars, keyVars, disposed, catVars>>

\* the DELETE fails: cancelOperation() rethrows and the entry stays
CancelRemoteFail ==
  /\ cancelT = "remote"
  /\ cancelT' = "idle"
  /\ UNCHANGED <<run, streamingCells, snapshot, op, served, obs>>
  /\ UNCHANGED <<supVars, sessVars, regVars, keyVars, disposed, catVars>>

\* after the setContext command: this.streamingCells.delete(cellKey)
CancelFinish ==
  /\ cancelT = "context"
  /\ streamingCells' = NoCell
  /\ cancelT' = "idle"
  /\ UNCHANGED <<run, snapshot, op, served, obs>>
  /\ UNCHANGED <<supVars, sessVars, regVars, keyVars, disposed, catVars>>

(***************************************************************************)
(* dispose() of the controller: stopRequested is set on every record and   *)
(* the map is cleared, so a loop that reads the map afterwards finds no    *)
(* record.                                                                 *)
(***************************************************************************)
LoopRunning(pc) == pc \in {"registered", "sfetch", "sstatus", "sprompt"} \/ Waiting(pc)

Dispose ==
  /\ disposed = "no"
  /\ disposed' = IF LoopRunning(run.pc) THEN "streaming" ELSE "idle"
  /\ streamingCells' = NoCell
  /\ UNCHANGED <<run, cancelT, snapshot, op, served, obs>>
  /\ UNCHANGED <<supVars, sessVars, regVars, keyVars, catVars>>

RunNext ==
  \/ \E o \in {"empty", "failed", "submitted"} : ExecuteCell(o)
  \/ \E o \in OpStatuses : OpAdvance(o)
  \/ StatusReply
  \/ StatusFail
  \/ FirstPage
  \/ FirstFail
  \/ BatchPage
  \/ BatchFail
  \/ StreamStart
  \/ Wake
  \/ StreamPage
  \/ StreamFetchFail
  \/ StreamStatusReply
  \/ StreamStatusFail
  \/ \E choice \in {"Continue", "Stop"} : PromptAnswer(choice)
  \/ PauseStreaming
  \/ ResumeStreaming
  \/ StopStreaming
  \/ CancelCall
  \/ \E o \in {"CANCELED", "GONE"} : CancelRemoteOk(o)
  \/ CancelRemoteFail
  \/ CancelFinish

(***************************************************************************)
(* The registry of streaming cells (streamingCells) with several cells:    *)
(* what the controller's methods do to its entries.  jobId 0 stands for a  *)
(* first page without jobID.                                               *)
(***************************************************************************)
CellKeys == 1..MaxCells
Jobs == 1..MaxJobs

NoInfo == [present |-> FALSE, jobId |-> 0, stopRequested |-> FALSE,
           paused |-> FALSE]

RegInit ==
  /\ registry = [c \in CellKeys |-> NoInfo]
  /\ deleting = {}
  /\ byJob = 0

\* fetchResults: `this.streamingCells.set(cellKey, {...})`
TrackCell(c, j) ==
  /\ ~registry[c].present
  /\ registry' = [registry EXCEPT ![c] =
                   [present |-> TRUE, jobId |-> j, stopRequested |-> FALSE,
                    paused |-> FALSE]]
  /\ byJob' = 0
  /\ UNCHANGED <<deleting, supVars, sessVars, runVars, keyVars, disposed, catVars>>

\* stopStreaming(cell)
StopCell(c) ==
  /\ registry[c].present
  /\ registry' = [registry EXCEPT ![c].stopRequested = TRUE]
  /\ byJob' = 0
  /\ UNCHANGED <<deleting, supVars, sessVars, runVars, keyVars, disposed, catVars>>

\* pauseStreaming(cell)
PauseCell(c) ==
  /\ registry[c].present
  /\ registry' = [registry EXCEPT ![c].paused = TRUE]
  /\ byJob' = 0
  /\ UNCHANGED <<deleting, supVars, sessVars, runVars, keyVars, disposed, catVars>>

\* resumeStreaming(cell)
ResumeCell(c) ==
  /\ registry[c].present
  /\ registry' = [registry EXCEPT ![c].paused = FALSE]
  /\ byJob' = 0
  /\ UNCHANGED <<deleting, supVars, sessVars, runVars, keyVars, disposed, catVars>>

\* cancelOperation(cell) up to its await: stopRequested, then the DELETE
CancelCell(c) ==
  /\ registry[c].present
  /\ c \notin deleting
  /\ registry' = [registry EXCEPT ![c].stopRequested = TRUE]
  /\ deleting' = deleting \cup {c}
  /\ byJob' = 0
  /\ UNCHANGED <<supVars, sessVars, runVars, keyVars, disposed, catVars>>

\* cancelOperation(cell): the DELETE was answered, the key is deleted
CancelCellOk(c) ==
  /\ c \in deleting
  /\ registry' = [registry EXCEPT ![c] = NoInfo]
  /\ deleting' = deleting \ {c}
  /\ byJob' = 0
  /\ UNCHANGED <<supVars, sessVars, runVars, keyVars, disposed, catVars>>

\* cancelOperation(cell): the DELETE failed, the error is thrown on
CancelCellFail(c) ==
  /\ c \in deleting
  /\ deleting' = deleting \ {c}
  /\ byJob' = 0
  /\ UNCHANGED <<registry, supVars, sessVars, runVars, keyVars, disposed, catVars>>

\* fetchStreamingResults: the loop of the cell is over, the key is deleted
UntrackCell(c) ==
  /\ registry[c].present
  /\ registry' = [registry EXCEPT ![c] = NoInfo]
  /\ byJob' = 0
  /\ UNCHANGED <<deleting, supVars, sessVars, runVars, keyVars, disposed, catVars>>

\* (mutant) every entry is taken to belong to the job
JobMatches_Any(info, jobId) == info.present

\* `streamingInfo.jobId === jobId`, for an entry of the map
JobMatches(info, jobId) == info.present /\ info.jobId = jobId

stopStreamingByJobId(jobId) ==
  /\ registry' = [c \in CellKeys |->
                   IF JobMatches(registry[c], jobId)
                   THEN [registry[c] EXCEPT !.stopRequested = TRUE]
                   ELSE registry[c]]
  /\ byJob' = jobId
  /\ UNCHANGED <<deleting, supVars, sessVars, runVars, keyVars, disposed, catVars>>

RegNext ==
  \/ \E c \in CellKeys : \E j \in 0..MaxJobs : TrackCell(c, j)
  \/ \E c \in CellKeys : StopCell(c)
  \/ \E c \in CellKeys : PauseCell(c)
  \/ \E c \in CellKeys : ResumeCell(c)
  \/ \E c \in CellKeys : CancelCell(c)
  \/ \E c \in CellKeys : CancelCellOk(c)
  \/ \E c \in CellKeys : CancelCellFail(c)
  \/ \E c \in CellKeys : UntrackCell(c)
  \/ \E j \in Jobs : stopStreamingByJobId(j)

(***************************************************************************)
(* The registry of streaming cells under its keys.  Every run is the       *)
(* statement of a cell of its own; a record holds the execution and the    *)
(* statementId of the run that set it (owner).  The notebook can be edited *)
(* while statements stream, which moves the cells to other indexes.        *)
(***************************************************************************)
Runs == 1..MaxRuns

\* the cells of a notebook have different indexes
Indexings ==
  {f \in [Runs -> CellKeys] : \A r, q \in Runs : r # q => f[r] # f[q]}

NoLoop == [pc |-> "none", key |-> 0]
NoEntry == [present |-> FALSE, owner |-> 0, stopRequested |-> FALSE,
            paused |-> FALSE]

\* getCellKey(cell) for the cell of run r
getCellKey(r) == cellIndex[r]

KeyInit ==
  /\ cellIndex = [r \in Runs |-> r]
  /\ loops = [r \in Runs |-> NoLoop]
  /\ entries = [k \in CellKeys |-> NoEntry]
  /\ cancelBy = [k \in CellKeys |-> 0]
  /\ actor = 0

\* the user moves, inserts or deletes cells: the cells get other indexes
MoveCell ==
  /\ \E f \in Indexings : f # cellIndex /\ cellIndex' = f
  /\ actor' = 0
  /\ UNCHANGED <<loops, entries, cancelBy>>
  /\ UNCHANGED <<supVars, sessVars, runVars, regVars, disposed, catVars>>

\* fetchResults of run r: `this.streamingCells.set(cellKey, {...})`, which
\* replaces a record that is under the key
RegisterRun(r) ==
  /\ loops[r].pc = "none"
  /\ entries' = [entries EXCEPT ![getCellKey(r)] =
                   [present |-> TRUE, owner |-> r, stopRequested |-> FALSE,
                    paused |-> FALSE]]
  /\ loops' = [loops EXCEPT ![r].pc = "set"]
  /\ actor' = 0
  /\ UNCHANGED <<cellIndex, cancelBy>>
  /\ UNCHANGED <<supVars, sessVars, runVars, regVars, disposed, catVars>>

\* fetchStreamingResults of run r begins: `const cellKey = getCellKey(cell)`
StartLoop(r) ==
  /\ loops[r].pc = "set"
  /\ loops' = [loops EXCEPT ![r] = [pc |-> "polling", key |-> getCellKey(r)]]
  /\ actor' = 0
  /\ UNCHANGED <<cellIndex, entries, cancelBy>>
  /\ UNCHANGED <<supVars, sessVars, runVars, regVars, disposed, catVars>>

\* the loop of run r finds stopRequested in the record under its cellKey,
\* ends as canceled and deletes the key
LoopSeesStop(r) ==
  /\ loops[r].pc = "polling"
  /\ entries[loops[r].key].present /\ entries[loops[r].key].stopRequested
  /\ entries' = [entries EXCEPT ![loops[r].key] = NoEntry]
  /\ loops' = [loops EXCEPT ![r].pc = "over"]
  /\ actor' = r
  /\ UNCHANGED <<cellIndex, cancelBy>>
  /\ UNCHANGED <<supVars, sessVars, runVars, regVars, disposed, catVars>>

\* the loop of run r ends by itself (end of stream, error status, declined
\* prompt) and deletes the key
LoopOver(r) ==
  /\ loops[r].pc = "polling"
  /\ entries' = [entries EXCEPT ![loops[r].key] = NoEntry]
  /\ loops' = [loops EXCEPT ![r].pc = "over"]
  /\ actor' = r
  /\ UNCHANGED <<cellIndex, cancelBy>>
  /\ UNCHANGED <<supVars, sessVars, runVars, regVars, disposed, catVars>>

\* the record with one of its flags set
WithFlag(info, flag, value) ==
  IF flag = "paused" THEN [info EXCEPT !.paused = value]
  ELSE [info EXCEPT !.stopRequested = value]

\* pauseStreaming on the cell of run r
PauseOn(r) ==
  /\ entries[getCellKey(r)].present
  /\ entries' = [entries EXCEPT ![getCellKey(r)] = WithFlag(@, "paused", TRUE)]
  /\ actor' = r
  /\ UNCHANGED <<cellIndex, loops, cancelBy>>
  /\ UNCHANGED <<supVars, sessVars, runVars, regVars, disposed, catVars>>

\* resumeStreaming on the cell of run r
ResumeOn(r) ==
  /\ entries[getCellKey(r)].present
  /\ entries' = [entries EXCEPT ![getCellKey(r)] = WithFlag(@, "paused", FALSE)]
  /\ actor' = r
  /\ UNCHANGED <<cellIndex, loops, cancelBy>>
  /\ UNCHANGED <<supVars, sessVars, runVars, regVars, disposed, catVars>>

\* stopStreaming on the cell of run r
StopOn(r) ==
  /\ entries[getCellKey(r)].present
  /\ entries' = [entries EXCEPT ![getCellKey(r)] =
                   WithFlag(@, "stopRequested", TRUE)]
  /\ actor' = r
  /\ UNCHANGED <<cellIndex, loops, cancelBy>>
  /\ UNCHANGED <<supVars, sessVars, runVars, regVars, disposed, catVars>>

\* cancelOperation on the cell of run r, up to its await
CancelOn(r) ==
  /\ entries[getCellKey(r)].present
  /\ cancelBy[getCellKey(r)] = 0
  /\ entries' = [entries EXCEPT ![getCellKey(r)].stopRequested = TRUE]
  /\ cancelBy' = [cancelBy EXCEPT ![getCellKey(r)] = r]
  /\ actor' = r
  /\ UNCHANGED <<cellIndex, loops>>
  /\ UNCHANGED <<supVars, sessVars, runVars, regVars, disposed, catVars>>

\* the DELETE was answered: `this.streamingCells.delete(cellKey)`
CancelOnOk(k) ==
  /\ cancelBy[k] # 0
  /\ entries' = [entries EXCEPT ![k] = NoEntry]
  /\ cancelBy' = [cancelBy EXCEPT ![k] = 0]
  /\ actor' = cancelBy[k]
  /\ UNCHANGED <<cellIndex, loops>>
  /\ UNCHANGED <<supVars, sessVars, runVars, regVars, disposed, catVars>>

\* the DELETE failed: cancelOperation throws
CancelOnFail(k) ==
  /\ cancelBy[k] # 0
  /\ cancelBy' = [cancelBy EXCEPT ![k] = 0]
  /\ actor' = cancelBy[k]
  /\ UNCHANGED <<cellIndex, loops, entries>>
  /\ UNCHANGED <<supVars, sessVars, runVars, regVars, disposed, catVars>>

KeyNext ==
  \/ MoveCell
  \/ \E r \in Runs : RegisterRun(r)
  \/ \E r \in Runs : StartLoop(r)
  \/ \E r \in Runs : LoopSeesStop(r)
  \/ \E r \in Runs : LoopOver(r)
  \/ \E r \in Runs : PauseOn(r)
  \/ \E r \in Runs : ResumeOn(r)
  \/ \E r \in Runs : StopOn(r)
  \/ \E r \in Runs : CancelOn(r)
  \/ \E k \in CellKeys : CancelOnOk(k)
  \/ \E k \in CellKeys : CancelOnFail(k)

(***************************************************************************)
(* The catalog browser.  Its statements run in the session that            *)
(* getOrCreateSession() returns, the one the cells of the notebook use.    *)
(* On the gateway USE CATALOG c makes c the current catalog and the        *)
(* default database of c (database 1) the current database; USE d makes d  *)
(* the current database.                                                   *)
(***************************************************************************)
Catalogs == 1..MaxCatalogs
Databases == 1..MaxDatabases

NoBrowse ==
  [pc |-> "idle", op |-> "none", catalog |-> 0, database |-> 0,
   before |-> [catalog |-> 0, database |-> 0], alone |-> FALSE]

CatInit ==
  /\ current = [catalog |-> 1, database |-> 1]
  /\ browse = NoBrowse

\* the gateway runs `USE CATALOG c`
UseCatalog(cur, c) == [catalog |-> c, database |-> 1]

\* the gateway runs `USE d`
UseDatabase(cur, d) == [cur EXCEPT !.database = d]

\* listDatabases(c), listTables(c, d) or getTable(c, d, t) is called: up to
\* the first executeSqlQuery
BrowseCall(what, c, d) ==
  /\ browse.pc \in {"idle", "done", "failed"}
  /\ browse' = [pc |-> "useCatalog", op |-> what, catalog |-> c,
                database |-> IF what = "listDatabases" THEN 0 ELSE d,
                before |-> current, alone |-> TRUE]
  /\ UNCHANGED current
  /\ UNCHANGED <<supVars, sessVars, runVars, regVars, keyVars, disposed>>

\* executeSqlQuery(`USE CATALOG ...`) of the browse call is over
BrowseUseCatalog(ok) ==
  /\ browse.pc = "useCatalog"
  /\ IF ok
     THEN /\ current' = UseCatalog(current, browse.catalog)
          /\ browse' = [browse EXCEPT !.pc = IF browse.op = "listDatabases"
                                             THEN "query" ELSE "useDatabase"]
     ELSE /\ browse' = [browse EXCEPT !.pc = "failed"]
          /\ UNCHANGED current
  /\ UNCHANGED <<supVars, sessVars, runVars, regVars, keyVars, disposed>>

\* executeSqlQuery(`USE ...`) of listTables / getTable is over
BrowseUseDatabase(ok) ==
  /\ browse.pc = "useDatabase"
  /\ IF ok
     THEN /\ current' = UseDatabase(current, browse.database)
          /\ browse' = [browse EXCEPT !.pc = "query"]
     ELSE /\ browse' = [browse EXCEPT !.pc = "failed"]
          /\ UNCHANGED current
  /\ UNCHANGED <<supVars, sessVars, runVars, regVars, keyVars, disposed>>

\* SHOW DATABASES / SHOW TABLES / DESCRIBE is over, and the call returns or
\* throws
BrowseQuery(ok) ==
  /\ browse.pc = "query"
  /\ browse' = [browse EXCEPT !.pc = IF ok THEN "done" ELSE "failed"]
  /\ UNCHANGED current
  /\ UNCHANGED <<supVars, sessVars, runVars, regVars, keyVars, disposed>>

\* a cell of the notebook runs USE CATALOG or USE in the shared session
UserUse(what, x) ==
  /\ current' = IF what = "catalog" THEN UseCatalog(current, x)
                ELSE UseDatabase(current, x)
  /\ current' # current
  /\ browse' = [browse EXCEPT !.alone = FALSE]
  /\ UNCHANGED <<supVars, sessVars, runVars, regVars, keyVars, disposed>>

CatNext ==
  \/ \E what \in {"listDatabases", "listTables", "getTable"},
        c \in Catalogs, d \in Databases : BrowseCall(what, c, d)
  \/ \E ok \in BOOLEAN : BrowseUseCatalog(ok)
  \/ \E ok \in BOOLEAN : BrowseUseDatabase(ok)
  \/ \E ok \in BOOLEAN : BrowseQuery(ok)
  \/ \E x \in Catalogs : UserUse("catalog", x)
  \/ \E x \in Databases : UserUse("database", x)

(***************************************************************************)
(* Specifications                                                          *)
(***************************************************************************)
Init ==
  /\ SupInit /\ SessInit /\ RunInit /\ RegInit /\ KeyInit /\ disposed = "no"
  /\ CatInit

\* the ClusterManager under any calls
SpecSup == Init /\ [][SupNext]_vars

\* the ClusterManager under one start() and one stop()
SpecPair == Init /\ [][PairNext]_vars

\* the ClusterManager under two start() calls
SpecStarts == Init /\ [][StartsNext]_vars

\* the SessionManager under overlapping callers
SpecSess == Init /\ [][SessNext]_vars

\* one statement, from executeCell() to its end
SpecRun == Init /\ [][RunNext]_vars

\* one statement whose requests of the status loop, the first-fetch loop and
\* the batch loop are all answered, by a reply or by a failure
SpecRunFair ==
  /\ Init /\ [][RunNext]_vars
  /\ WF_vars(StatusReply \/ StatusFail)
  /\ WF_vars(FirstPage \/ FirstFail)
  /\ WF_vars(BatchPage \/ BatchFail)

\* one statement and dispose() of the controller
DisposeNext == RunNext \/ Dispose

SpecDispose == Init /\ [][DisposeNext]_vars

\* the catalog browser and the USE statements of the notebook
SpecCat == Init /\ [][CatNext]_vars

\* the registry of streaming cells under the calls of several cells
SpecReg == Init /\ [][RegNext]_vars

\* several streaming statements of one notebook that is being edited
SpecKeys == Init /\ [][KeyNext]_vars

(***************************************************************************)
(* Claims about the ClusterManager                                         *)
(***************************************************************************)
StartOver(i) == startT[i].pc \in {"done", "failed"}

\* the crash-handler invocations for child process p made on handler h
Notices(p, h) ==
  {k \in DOMAIN crashLog : crashLog[k].proc = p /\ crashLog[k].handler = h}

\* C1: a start() followed by a stop() issued while the supervisor is still
\* Starting: once both calls have completed, the process spawned by that
\* start() is not alive (it has exited or SIGKILL has been sent to it).
C1_StartThenStopLeavesNoProcess ==
  (StartOver(1) /\ stopT[1].pc = "done" /\ stopT[1].during) => ~Live(1)

C1_Witness ==
  /\ StartOver(1) /\ stopT[1].pc = "done" /\ stopT[1].during
  /\ procs[1].os = "alive" /\ procs[1].sigkill

\* C2: an exit observed while Running, not caused by stop(), with a non-zero
\* code or a signal invokes every registered handler exactly once with the
\* observed code; a spawn-level error is reported with no code; an exit
\* caused by a requested stop() (the process ended by the SIGTERM that
\* stop() sent) invokes no crash handler.
C2_CrashBroadcastExactlyOnce ==
  \A p \in Starts :
    /\ ( /\ exitLog[p].seen /\ exitLog[p].was = RUNNING
          /\ procs[p].signalCode # "SIGTERM"
          /\ (procs[p].exitCode # "0" \/ procs[p].signalCode # "null") )
        => \A h \in 1..exitLog[p].nh :
             /\ Cardinality(Notices(p, h)) = 1
             /\ \A k \in Notices(p, h) : crashLog[k].code = procs[p].exitCode
    /\ procs[p].os = "nospawn"
        => \A k \in DOMAIN crashLog : crashLog[k].proc = p => crashLog[k].code = "null"
    /\ (exitLog[p].seen /\ procs[p].signalCode = "SIGTERM")
        => \A k \in DOMAIN crashLog : crashLog[k].proc # p

\* C3: when start() has made p the running process and afterwards only
\* getStatus() (and onCrash()) is called, before or after the exit of p is
\* observed, an unexpected exit of p is notified to every handler registered
\* at that moment exactly once, with the observed exit code, and to no other.
C3_StatusQueryKeepsCrashNotice ==
  \A p \in Starts :
    ( /\ exitLog[p].seen /\ exitLog[p].quiet
      /\ (procs[p].exitCode # "0" \/ procs[p].signalCode # "null") )
    => \A h \in 1..MaxHandlers :
         /\ Cardinality(Notices(p, h)) = (IF h <= exitLog[p].nh THEN 1 ELSE 0)
         /\ \A k \in Notices(p, h) : crashLog[k].code = procs[p].exitCode

C3_Witness ==
  /\ exitLog[1].seen /\ exitLog[1].quiet /\ exitLog[1].before /\ exitLog[1].after
  /\ procs[1].exitCode = "1" /\ exitLog[1].nh >= 1
  /\ Cardinality(Notices(1, 1)) = 1

\* C4: a start() that fails because the readiness probe was exhausted
\* leaves no live process that it spawned, and a start() whose probe window
\* is over is no longer probing.
C4_ProbeTimeoutLeavesNoProcess ==
  \A i \in Starts :
    /\ (startT[i].pc = "failed" /\ startT[i].why = "timeout") => ~Live(i)
    /\ startT[i].tries >= MaxProbes => startT[i].pc \in {"stopwait", "failed"}

\* C5: every change of the supervisor state follows one of the edges of the
\* specified state machine.
SpecEdges ==
  { <<STOPPED, STARTING>>, <<STARTING, RUNNING>>, <<STARTING, ERROR>>,
    <<RUNNING, STOPPING>>, <<STOPPING, STOPPED>>, <<RUNNING, ERROR>>,
    <<ERROR, STARTING>> }

C5_OnlySpecifiedEdges ==
  \A k \in 1..(Len(path) - 1) :
    path[k] = path[k + 1] \/ <<path[k], path[k + 1]>> \in SpecEdges

(***************************************************************************)
(* Claims about the SessionManager                                         *)
(***************************************************************************)
\* C6: whatever number of getOrCreateSession() callers overlap, at most one
\* session created by the registry is live on the gateway at any time.
C6_AtMostOneLiveSession == Cardinality(sessions) <= 1

(***************************************************************************)
(* Claims about the FlinkNotebookController                                *)
(***************************************************************************)
\* C7: when cancelOperation(cell) is called while the streaming loop waits
\* between polls, the loop issues at most one more fetch, the row buffer
\* stays what it was at the call, and the statement ends with a canceled
\* snapshot of exactly those rows.
C7_CancelDuringWait ==
  (obs.cancelSet /\ obs.cancelWait) =>
    /\ obs.cancelExtra <= 1
    /\ Len(run.rows) = obs.cancelRows
    /\ run.pc \notin {"sprompt", "failed"}
    /\ run.pc = "done" =>
         snapshot = [status |-> "canceled", n |-> obs.cancelRows]

\* the cancel call has removed the registry entry before the loop woke up, so
\* the loop fetched once more, and the statement ended as canceled
C7_Witness ==
  /\ obs.cancelSet /\ obs.cancelWait
  /\ obs.cancelExtra = 1 /\ obs.cancelRows >= 1
  /\ run.pc = "done" /\ snapshot.status = "canceled"

\* C8: no fetch of the streaming loop is issued while the subscription is
\* paused, and the first fetch after the loop has been held by a pause uses
\* the token the loop had when it saw the pause.
C8_PauseHoldsCursor ==
  /\ ~obs.reqPaused
  /\ obs.reqResumed => obs.reqTok = obs.reqResumeTok
  /\ run.pc = "spaused" => obs.pauseSeen /\ obs.pauseTok = run.token

\* the loop was held by a pause after it had consumed a page with rows, and
\* has fetched again after the resume
C8_Witness ==
  /\ run.pc = "sfetch" /\ obs.reqResumed /\ obs.reqTok >= 1
  /\ Len(run.rows) >= 1
  /\ streamingCells.present /\ ~streamingCells.paused

\* C9: a statement is classified streaming exactly when the page accepted by
\* the first-fetch loop is not EOS, carries a nextResultUri and the status
\* last polled is RUNNING; a subscription is registered exactly then.
C9_StreamingClassification ==
  obs.mode # "none" =>
    /\ obs.mode = "streaming" <=>
         (obs.kind # "EOS" /\ obs.next # "none" /\ obs.status = "RUNNING")
    /\ obs.subscribed <=> obs.mode = "streaming"

\* a page that is not EOS and carries a nextResultUri, classified batch
\* because the status last polled was FINISHED
C9_Witness ==
  /\ obs.mode = "batch" /\ ~obs.subscribed
  /\ obs.kind = "PAYLOAD" /\ obs.next = "uri" /\ obs.status = "FINISHED"

\* C10: a statement that has ended holds, in its row buffer, the rows of all
\* the pages the gateway served for it, in the order they were served.
C10_RowsAreTheServedRows ==
  run.pc = "done" => run.rows = [k \in 1..served |-> k]

\* C11: a fetch of the streaming loop that is sent while the row buffer has
\* reached the row limit was preceded by the user answering "Continue"; once
\* the user has declined the statement is over (no fetch can follow) and the
\* operation has not been deleted on the gateway unless cancelOperation()
\* was called.
C11_RowLimitAsksBeforeFetch ==
  /\ obs.reqCapped => obs.reqAsked
  /\ obs.declined => run.pc = "done" /\ snapshot.status = "table"
  /\ (obs.declined /\ ~obs.cancelSet) => op # "GONE"

\* C12: a call stopStreamingByJobId(J) sets stopRequested of every entry
\* whose jobId is J, leaves every field of every other entry and the set of
\* keys as they were, and sends nothing to the gateway.
C12_ByJobMarksOnlyItsCells ==
  [][byJob' # 0 =>
       /\ \A c \in CellKeys :
            registry'[c] =
              IF registry[c].present /\ registry[c].jobId = byJob'
              THEN [registry[c] EXCEPT !.stopRequested = TRUE]
              ELSE registry[c]
       /\ deleting' = deleting]_vars

\* the call has just marked the cell of its job and there is a cell of
\* another job, paused and not marked
C12_Witness ==
  /\ byJob # 0
  /\ \E c, d \in CellKeys :
       /\ registry[c].present /\ registry[c].jobId = byJob
       /\ registry[c].stopRequested
       /\ registry[d].present /\ registry[d].jobId # byJob
       /\ registry[d].paused /\ ~registry[d].stopRequested

\* C13: when a submitted statement has ended, in whichever way, the output
\* of the cell is a final one (the table, the canceled table or an error)
\* and it shows every row that was accumulated.
C13_FinalSnapshotKeepsRows ==
  (run.pc \in {"done", "failed"} /\ op # "NONE") =>
     /\ snapshot.status \in {"table", "canceled", "error", "failure"}
     /\ snapshot.n = Len(run.rows)

\* C14: while a statement runs, the token of a fetch request is never below
\* the token of the fetch request sent before it.
C14_FetchTokensNeverGoBack ==
  [][run'.pc \in {"idle", "done", "failed"} \/ obs'.lastTok >= obs.lastTok]_vars

\* C15: in every step of a statement the row buffer is extended at its end,
\* and the output of the cell, which shows the first snapshot.n rows of the
\* buffer, shows at least the rows the output before it showed.
C15_SnapshotsOnlyGrow ==
  [][/\ Len(run.rows) <= Len(run'.rows)
     /\ SubSeq(run'.rows, 1, Len(run.rows)) = run.rows
     /\ snapshot'.n <= Len(run'.rows)
     /\ snapshot'.n >= snapshot.n]_vars

\* C16: a getOrCreateSession() call that returns returns a session id (never
\* the empty value), and when its existence check failed it returns another
\* id than the checked one, which is then the cached id of the registry or
\* was replaced there by a later call.
C16_ReturnsASessionId ==
  \A c \in Callers :
    sessT[c].pc = "done" =>
      /\ sessT[c].ret \in 1..created
      /\ sessT[c].stale => sessT[c].ret # sessT[c].id

\* C17: a closeSession() call made with no cached id completes at once,
\* sends nothing and leaves the cached id and the sessions of the gateway as
\* they were; and a closeSession() call made right after a completed
\* closeSession() call sends no DELETE, so that two calls in a row close and
\* request what one call does.
C17_CloseSessionIdempotent ==
  [][/\ (closeT.pc # "closing" /\ closeT'.after /\ closeT' # closeT) =>
          (currentSessionId' = currentSessionId /\ sessions' = sessions)
     /\ (closeT.pc # "closing" /\ closeT'.pc = "closing") =>
          (currentSessionId # 0 /\ ~closeT.after)]_vars

\* C18: when closeSession() has completed after the gateway rejected its
\* DELETE because the session was gone, the call has returned without error
\* and no id is cached; after any other rejection the call has thrown.
C18_CloseSwallowsNotFound ==
  closeT.after =>
    /\ closeT.why = "gone" => (closeT.pc = "done" /\ currentSessionId = 0)
    /\ closeT.why = "other" => closeT.pc = "failed"

\* C19: a start() call made while the status is STARTING or RUNNING throws,
\* spawns no process and leaves the status, the process handle, the pid and
\* the child processes as they were.
C19_StartRefusedWhileBusy ==
  [][\A i \in Starts :
       (startT[i].pc = "idle" /\ startT'[i].pc # "idle"
          /\ status \in {STARTING, RUNNING}) =>
         /\ startT'[i].pc = "rejected"
         /\ status' = status /\ process' = process /\ pid' = pid
         /\ procs' = procs]_vars

\* the second start() was refused while the gateway of the first was being
\* started, and the first went on to RUNNING with its own process
C19_Witness ==
  /\ startT[2].pc = "rejected" /\ startT[2].why = "busy"
  /\ startT[1].pc = "done" /\ status = RUNNING
  /\ process = 1 /\ pid = 1 /\ procs[2].os = "unspawned"

\* C20: in the step that completes a stop() call the status is STOPPED and
\* the process handle and the pid are empty, whatever the status was when
\* the call was made and whether or not there was a process handle.  (When
\* the same exit also ends the stop() made by a start() whose probe timed
\* out, the catch block of that start() runs after the stop() calls have
\* completed, in the same step, and the status is ERROR by then.)
C20_StopCompletesStopped ==
  [][\A j \in Stops :
       (stopT[j].pc # "done" /\ stopT'[j].pc = "done") =>
         /\ process' = 0 /\ pid' = 0
         /\ \/ status' = STOPPED
            \/ /\ status' = ERROR
               /\ \E i \in Starts : startT[i].pc = "stopwait"
                                      /\ startT'[i].pc = "failed"]_vars

\* C21: when the last poll of the status loop (the 60th) still finds the
\* operation neither RUNNING nor FINISHED nor ERROR, the statement fails,
\* no fetch is sent for it and the operation is left as it is.
C21_StatusBudgetEndsInFailure ==
  [][(/\ run.pc = "status" /\ run.attempts = maxAttempts - 1
      /\ op \notin {"RUNNING", "FINISHED", "ERROR"}
      /\ run'.pc # "status") =>
        (run'.pc = "failed" /\ op' = op)]_vars

\* C22: when the first-fetch loop has used up its 60 re-fetches and the page
\* it is left with is neither EOS nor a page with rows, the statement ends
\* there without failing: the output is the table of the rows accumulated.
C22_FetchBudgetEndsStatement ==
  [][(/\ run.pc = "first" /\ run.fetchAttempts = maxFetchAttempts
      /\ run'.pc # "first"
      /\ obs'.kind \in {"NOT_READY", "PAYLOAD"} /\ run'.rows = <<>>) =>
        /\ run'.pc = "done"
        /\ snapshot'.status = "table" /\ snapshot'.n = Len(run'.rows)]_vars

\* C23: a pause, resume, stop or cancel made on the cell of a run, and the
\* end of the loop of a run, change or remove only the record that this run
\* set, and never a record that the loop of another run reads.
C23_RunsDoNotTouchEachOther ==
  [][actor' # 0 =>
       \A k \in CellKeys :
         entries'[k] # entries[k] =>
           /\ entries[k].owner = actor'
           /\ \A r \in Runs \ {actor'} :
                ~(loops[r].pc = "polling" /\ loops[r].key = k)]_vars

\* C24: a pause or a resume of the subscription changes its paused flag and
\* the output only: stopRequested, the cursor, the row buffer, the position
\* of the run and the requests sent and served stay as they are; where there
\* is no subscription there is no flag to set.
C24_PauseResumeFrame ==
  /\ [][(/\ streamingCells.present /\ streamingCells'.present
          /\ streamingCells'.paused # streamingCells.paused) =>
            /\ streamingCells'.stopRequested = streamingCells.stopRequested
            /\ run' = run /\ op' = op /\ served' = served
            /\ obs' = obs /\ cancelT' = cancelT
            /\ snapshot'.n = snapshot.n]_vars
  /\ [](~streamingCells.present => streamingCells = NoCell)

C24_Witness ==
  /\ streamingCells.present /\ streamingCells.paused
  /\ ~streamingCells.stopRequested
  /\ run.pc = "ssleep" /\ run.token > 0 /\ Len(run.rows) > 0

\* C25: SIGKILL is sent by stop() only to a process that stop() has sent
\* SIGTERM before and that has not exited when the grace period ends.
C25_KillOnlyAfterTerm ==
  \A p \in Starts :
    procs[p].sigkill => (procs[p].sigterm /\ procs[p].os = "alive")

\* C26: when the process that start() spawned has exited while start() is
\* probing, the next iteration of the probe loop inside the probe window
\* fails the start() with the report of the exit, and probes no more.
C26_ExitAbortsProbing ==
  [][\A i \in Starts :
       (/\ startT[i].pc = "probe" /\ procs[i].os = "exited"
        /\ startT'[i].tries = startT[i].tries + 1
        /\ ProbeWindowOpen(startT'[i].tries)) =>
          (startT'[i].pc = "failed" /\ startT'[i].why = "exited")]_vars

\* C27: a status poll of the status loop that reports ERROR fails the
\* statement at once, and a failed statement sends no request any more: no
\* status poll, no fetch, and no page is served to it.
C27_StatusErrorFailsAtOnce ==
  /\ [][(run.pc = "status" /\ op = "ERROR" /\ run' # run) =>
          (run'.pc = "failed" /\ snapshot'.status = "failure")]_vars
  /\ [][run.pc = "failed" =>
          (run'.pc = "failed" /\ served' = served /\ ~run'.live)]_vars

C27_Witness ==
  /\ run.pc = "failed" /\ obs.status = "ERROR" /\ op = "ERROR"
  /\ snapshot.status = "failure" /\ served = 0

\* C28: a re-fetch of the first-fetch loop counts as one attempt; it uses
\* the token of the nextResultUri when the page was an empty PAYLOAD whose
\* nextResultUri names a greater token, and the same token otherwise (no
\* nextResultUri, one that is not greater, a NOT_READY page).
C28_FirstLoopCursor ==
  [][(run.pc = "first" /\ run'.pc = "first" /\ run' # run) =>
       LET page == run'.firstResult
           advances == /\ page.kind = "PAYLOAD" /\ page.n = 0
                       /\ page.next.form = "uri" /\ page.next.tok > run.token
       IN /\ run'.fetchAttempts = run.fetchAttempts + 1
          /\ run'.fetchAttempts <= maxFetchAttempts
          /\ run'.token = (IF advances THEN page.next.tok ELSE run.token)
          /\ obs'.lastTok = run'.token
          /\ run'.rows = run.rows]_vars

C28_Witness ==
  /\ run.pc = "first" /\ run.fetchAttempts >= 2 /\ run.token > 0
  /\ run.firstResult.kind = "NOT_READY" /\ run.firstResult.next.form = "uri"

\* C29: a failed fetch of the streaming loop asks the operation status and
\* keeps the rows and the token.  The answer ERROR or CANCELED ends the loop
\* with the error or the canceled output over the rows held; a failed
\* status request ends it with the canceled output; any other answer leads
\* to the 2 s wait, after which the loop (unless stopped or paused) fetches
\* the same token again.
C29_FetchFailureRequeriesStatus ==
  [][/\ (run.pc = "sfetch" /\ run'.pc = "sstatus") =>
          /\ run'.rows = run.rows /\ run'.token = run.token
          /\ served' = served /\ snapshot' = snapshot
     /\ (run.pc = "sstatus" /\ run' # run) =>
          /\ run'.rows = run.rows /\ served' = served
          /\ run'.pc \in {"done", "sretry"}
          /\ op \in {"ERROR", "CANCELED"} => run'.pc = "done"
          /\ run'.pc = "done" =>
               /\ snapshot'.n = Len(run.rows)
               /\ snapshot'.status \in {"canceled", "error"}
               /\ snapshot'.status = "error" => op = "ERROR"
               /\ op = "CANCELED" => snapshot'.status = "canceled"
               /\ ~streamingCells'.present
          /\ run'.pc = "sretry" =>
               /\ run'.token = run.token /\ snapshot' = snapshot
               /\ streamingCells' = streamingCells
     /\ (run.pc = "sretry" /\ run' # run) =>
          /\ run'.rows = run.rows /\ served' = served
          /\ run'.pc \in {"sfetch", "spaused", "done"}
          /\ run'.pc = "sfetch" =>
               (run'.token = run.token /\ obs'.lastTok = run.token)
          /\ run'.pc = "spaused" =>
               (run'.token = run.token /\ streamingCells.paused)
          /\ run'.pc = "done" =>
               (streamingCells.stopRequested /\ snapshot'.status = "canceled"
                /\ snapshot'.n = Len(run.rows))]_vars

C29_Witness ==
  /\ run.pc = "sretry" /\ Len(run.rows) > 0 /\ run.token > 0
  /\ op = "RUNNING" /\ snapshot.status = "streaming"

\* C30: when every request is answered, the status loop, the first-fetch
\* loop and the batch loop come to an end, whatever the gateway answers.
C30_PollingLoopsEnd ==
  <>[](run.pc \notin {"status", "first", "bfetch"})

\* C31: a fetch of the first-fetch loop or of the batch loop that fails does
\* not fail the statement: the fetch is made again, or the statement ends
\* with the rows it holds.
C31_FetchFailureIsRetried ==
  [][(run.pc \in {"first", "bfetch"} /\ run' # run) =>
       /\ run'.pc # "failed"
       /\ snapshot'.status # "failure"]_vars

\* C32: when the streaming loop of a run is over, whatever ended it, no
\* record that this run set is left in the registry.
C32_LoopEndUnsubscribes ==
  \A r \in Runs :
    loops[r].pc = "over" =>
      \A k \in CellKeys : ~(entries[k].present /\ entries[k].owner = r)

\* C33: the next iteration of a streaming loop whose subscription is marked
\* stopRequested, paused or not, ends the loop with the canceled output over
\* the rows held and removes the subscription; it sends no fetch.
C33_StopBeforePause ==
  [][(/\ run.pc \in {"registered", "ssleep", "spaused", "sretry"}
      /\ run' # run
      /\ streamingCells.present /\ streamingCells.stopRequested) =>
        /\ run'.pc = "done" /\ run'.rows = run.rows
        /\ snapshot' = [status |-> "canceled", n |-> Len(run.rows)]
        /\ served' = served /\ ~run'.live
        /\ ~streamingCells'.present]_vars

\* a loop held by a pause whose subscription was then marked stopRequested
C33_Witness ==
  /\ run.pc = "spaused" /\ obs.pauseSeen
  /\ streamingCells.present /\ streamingCells.paused
  /\ streamingCells.stopRequested /\ cancelT = "idle" /\ ~obs.cancelSet
  /\ Len(run.rows) > 0

\* C34: at most one process spawned by the supervisor is alive, and a live
\* process is the one the handle of the supervisor refers to.
C34_LiveProcessIsManaged ==
  \A p \in Starts : Live(p) => process = p

\* C35: the exit of a process that is no longer the one the handle refers
\* to, because a later start() has spawned another, changes neither the
\* status nor the handle and the pid, and notifies no crash handler.
C35_StaleExitChangesNothing ==
  [][\A p \in Starts :
       (/\ procs[p].os = "alive" /\ procs'[p].os = "exited"
        /\ process # 0 /\ process # p) =>
          /\ status' = status /\ process' = process /\ pid' = pid
          /\ crashLog' = crashLog]_vars

\* C36: while the status is RUNNING the handle is set and refers to a
\* process whose exit has not been observed.
C36_RunningHasLiveHandle ==
  status = RUNNING => (process # 0 /\ procs[process].os = "alive")

\* C37: after dispose() the loop of a statement that was streaming ends at
\* its next iteration and sends no fetch.
C37_DisposeEndsLoops ==
  [][(/\ disposed = "streaming" /\ run' # run
      /\ run.pc \in {"registered", "ssleep", "spaused", "sretry"}) =>
        (run'.pc = "done" /\ ~run'.live)]_vars

\* C38: the rows of every page served to the statement are appended to its
\* row buffer in the step that takes the page, whichever loop takes it and
\* whether or not the first page carried the columns.
C38_ServedRowsAreAppended ==
  [][served' # served =>
       run'.rows = run.rows \o [k \in 1..(served' - served) |-> served + k]]_vars

\* C39: when a browse call (listDatabases, listTables, getTable) is over
\* and no cell has changed them meanwhile, the current catalog and the
\* current database of the session are what they were when it was called.
C39_BrowseKeepsCurrentCatalog ==
  (browse.pc \in {"done", "failed"} /\ browse.alone) => current = browse.before

====
